---- MODULE Spec2Model ----
(***************************************************************************)
(* Model of convert_retailers.py (NRCA Retailer Database Converter).       *)
(*                                                                         *)
(* Line 44 of the source file holds the second half of the program with    *)
(* its line breaks written as the two characters backslash-n; the model    *)
(* follows the program that text spells out.                               *)
(*                                                                         *)
(* Python values are records [t, s, n]:                                    *)
(*   t = "none"   None (what row.get returns for a column the sheet lacks) *)
(*   t = "nan"    float NaN (what pandas stores for a cell with no value)  *)
(*   t = "str"    a str; s is its sequence of one-character strings        *)
(*   t = "int"    an int; n is its value                                   *)
(*   t = "float"  a float on the grid of tenths; n is the value times ten  *)
(***************************************************************************)
EXTENDS Integers, Sequences, FiniteSets, TLC

----------------------------------------------------------------------------
(* Python values *)

None == [t |-> "none", s |-> <<>>, n |-> 0]

NaN == [t |-> "nan", s |-> <<>>, n |-> 0]

PyStr(chars) == [t |-> "str", s |-> chars, n |-> 0]

PyInt(k) == [t |-> "int", s |-> <<>>, n |-> k]

PyFloat(tenths) == [t |-> "float", s |-> <<>>, n |-> tenths]

Digits == <<"0", "1", "2", "3", "4", "5", "6", "7", "8", "9">>

DigitVal(c) == CHOOSE d \in 0..9 : Digits[d + 1] = c

IsDigit(c) == \E d \in 0..9 : Digits[d + 1] = c

RECURSIVE NatStr(_)
(* decimal digits of a natural number, as str() prints them *)
NatStr(k) == IF k < 10 THEN <<Digits[k + 1]>>
             ELSE NatStr(k \div 10) \o <<Digits[(k % 10) + 1]>>

Abs(k) == IF k < 0 THEN -k ELSE k

IntStr(k) == IF k < 0 THEN <<"-">> \o NatStr(-k) ELSE NatStr(k)

(* repr of a float on the grid of tenths: 515 prints as 51.5, -3 as -0.3 *)
FloatStr(tenths) ==
    (IF tenths < 0 THEN <<"-">> ELSE <<>>)
        \o NatStr(Abs(tenths) \div 10) \o <<".">> \o NatStr(Abs(tenths) % 10)

(* bool(v): None, "", 0 and 0.0 are falsy; NaN is a non-zero float, truthy *)
Truthy(v) ==
    CASE v.t = "none"  -> FALSE
      [] v.t = "nan"   -> TRUE
      [] v.t = "str"   -> v.s # <<>>
      [] v.t = "int"   -> v.n # 0
      [] v.t = "float" -> v.n # 0

(* variant of Or that tries its operands in the opposite order *)
OrPreferSecond(a, b) == IF Truthy(b) THEN b ELSE a

(* a or b *)
Or(a, b) == IF Truthy(a) THEN a ELSE b

(* str(v), as the sequence of characters of the result *)
StrOf(v) ==
    CASE v.t = "none"  -> <<"N", "o", "n", "e">>
      [] v.t = "nan"   -> <<"n", "a", "n">>
      [] v.t = "str"   -> v.s
      [] v.t = "int"   -> IntStr(v.n)
      [] v.t = "float" -> FloatStr(v.n)

(* pd.notna(v) *)
NotNa(v) == v.t \notin {"none", "nan"}

AllDigits(chars) == Len(chars) > 0 /\ \A i \in 1..Len(chars) : IsDigit(chars[i])

RECURSIVE NatVal(_)
NatVal(chars) == IF Len(chars) = 0 THEN 0
                 ELSE 10 * NatVal(SubSeq(chars, 1, Len(chars) - 1))
                          + DigitVal(chars[Len(chars)])

Unsigned(chars) == IF Len(chars) > 0 /\ chars[1] = "-" THEN Tail(chars) ELSE chars

Sign(chars) == IF Len(chars) > 0 /\ chars[1] = "-" THEN -1 ELSE 1

(* an integer literal: optional sign, then digits *)
IsIntLiteral(chars) == AllDigits(Unsigned(chars))

(* a decimal literal with one fractional digit: digits "." digit *)
IsTenthsLiteral(chars) ==
    LET u == Unsigned(chars)
    IN  /\ Len(u) >= 3
        /\ u[Len(u) - 1] = "."
        /\ IsDigit(u[Len(u)])
        /\ AllDigits(SubSeq(u, 1, Len(u) - 2))

(* float(v) raises ValueError: a str that is not a number (also "") *)
FloatRaises(v) == v.t = "str" /\ ~IsIntLiteral(v.s) /\ ~IsTenthsLiteral(v.s)

(* float(v), in tenths, for a value on which it does not raise *)
FloatOf(v) ==
    CASE v.t = "int"   -> PyFloat(10 * v.n)
      [] v.t = "float" -> v
      [] v.t = "str"   ->
            LET u == Unsigned(v.s)
            IN  IF IsIntLiteral(v.s)
                THEN PyFloat(Sign(v.s) * 10 * NatVal(u))
                ELSE PyFloat(Sign(v.s) * (10 * NatVal(SubSeq(u, 1, Len(u) - 2))
                                             + DigitVal(u[Len(u)])))

(* int(v) raises ValueError: a str that is not an integer literal *)
IntRaises(v) == v.t = "str" /\ ~IsIntLiteral(v.s)

(* int(v): a float is truncated toward zero *)
IntOf(v) ==
    CASE v.t = "int"   -> v
      [] v.t = "float" -> PyInt((IF v.n < 0 THEN -1 ELSE 1) * (Abs(v.n) \div 10))
      [] v.t = "str"   -> PyInt(Sign(v.s) * NatVal(Unsigned(v.s)))

----------------------------------------------------------------------------
(* Rows of a sheet *)

Columns == {"poi_id", "ID", "name", "Name", "locality", "Locality",
            "postcode", "Postcode", "address", "Address", "latitude",
            "longitude", "category_level1", "Category", "category_level2",
            "Subcategory", "category_level3", "Detail", "business_status",
            "Status", "Police_Force", "Force", "Tactical_Area",
            "Local_Authority", "rating", "rating_count", "phone",
            "website_domain", "Notes"}

(* row.get(col): None when the sheet has no such column; a row is a        *)
(* function on Columns that holds None for the columns the sheet lacks     *)
Get(row, col) == IF col \in DOMAIN row THEN row[col] ELSE None

(* the conditional coercions of the four numeric fields *)
CoerceFloat(v) == IF NotNa(v) THEN FloatOf(v) ELSE None

CoerceInt(v) == IF NotNa(v) THEN IntOf(v) ELSE None

(* building the dict raises: a numeric cell that float()/int() rejects *)
RowRaises(row) ==
    \/ NotNa(Get(row, "latitude")) /\ FloatRaises(Get(row, "latitude"))
    \/ NotNa(Get(row, "longitude")) /\ FloatRaises(Get(row, "longitude"))
    \/ NotNa(Get(row, "rating")) /\ FloatRaises(Get(row, "rating"))
    \/ NotNa(Get(row, "rating_count")) /\ IntRaises(Get(row, "rating_count"))

(* the fourteen entries of the dict literal built with str(... or ...)     *)
StrEntries(row, idx) ==
    [id              |-> PyStr(StrOf(Or(Get(row, "poi_id"), Or(Get(row, "ID"), PyInt(idx))))),
     name            |-> PyStr(StrOf(Or(Get(row, "name"), Or(Get(row, "Name"), PyStr(<<"U", "n", "k", "n", "o", "w", "n">>))))),
     locality        |-> PyStr(StrOf(Or(Get(row, "locality"), Or(Get(row, "Locality"), PyStr(<<>>))))),
     postcode        |-> PyStr(StrOf(Or(Get(row, "postcode"), Or(Get(row, "Postcode"), PyStr(<<>>))))),
     address         |-> PyStr(StrOf(Or(Get(row, "address"), Or(Get(row, "Address"), PyStr(<<>>))))),
     category        |-> PyStr(StrOf(Or(Get(row, "category_level1"), Or(Get(row, "Category"), PyStr(<<>>))))),
     subcategory     |-> PyStr(StrOf(Or(Get(row, "category_level2"), Or(Get(row, "Subcategory"), PyStr(<<>>))))),
     category_detail |-> PyStr(StrOf(Or(Get(row, "category_level3"), Or(Get(row, "Detail"), PyStr(<<>>))))),
     business_status |-> PyStr(StrOf(Or(Get(row, "business_status"), Or(Get(row, "Status"), PyStr(<<>>))))),
     police_force    |-> PyStr(StrOf(Or(Get(row, "Police_Force"), Or(Get(row, "Force"), PyStr(<<>>))))),
     tactical_area   |-> PyStr(StrOf(Or(Get(row, "Tactical_Area"), PyStr(<<>>)))),
     local_authority |-> PyStr(StrOf(Or(Get(row, "Local_Authority"), PyStr(<<>>)))),
     phone           |-> PyStr(StrOf(Or(Get(row, "phone"), PyStr(<<>>)))),
     website         |-> PyStr(StrOf(Or(Get(row, "website_domain"), PyStr(<<>>))))]

(* variant of NumEntries without the rating_count entry *)
NumEntriesNoRatingCount(row) ==
    [latitude     |-> CoerceFloat(Get(row, "latitude")),
     longitude    |-> CoerceFloat(Get(row, "longitude")),
     rating       |-> CoerceFloat(Get(row, "rating"))]

(* the four entries of the dict literal built with float()/int() *)
NumEntries(row) ==
    [latitude     |-> CoerceFloat(Get(row, "latitude")),
     longitude    |-> CoerceFloat(Get(row, "longitude")),
     rating       |-> CoerceFloat(Get(row, "rating")),
     rating_count |-> CoerceInt(Get(row, "rating_count"))]

(* the dict literal of the row loop (defined when RowRaises is false) *)
Retailer(row, idx) == StrEntries(row, idx) @@ NumEntries(row)

----------------------------------------------------------------------------
(* Inputs of the row-level specification *)

(* the source columns each output field is read from, in the order tried *)
Aliases ==
    [id              |-> <<"poi_id", "ID">>,
     name            |-> <<"name", "Name">>,
     locality        |-> <<"locality", "Locality">>,
     postcode        |-> <<"postcode", "Postcode">>,
     address         |-> <<"address", "Address">>,
     latitude        |-> <<"latitude">>,
     longitude       |-> <<"longitude">>,
     category        |-> <<"category_level1", "Category">>,
     subcategory     |-> <<"category_level2", "Subcategory">>,
     category_detail |-> <<"category_level3", "Detail">>,
     business_status |-> <<"business_status", "Status">>,
     police_force    |-> <<"Police_Force", "Force">>,
     tactical_area   |-> <<"Tactical_Area">>,
     local_authority |-> <<"Local_Authority">>,
     rating          |-> <<"rating">>,
     rating_count    |-> <<"rating_count">>,
     phone           |-> <<"phone">>,
     website         |-> <<"website_domain">>]

Fields == DOMAIN Aliases

NumericFields == {"latitude", "longitude", "rating", "rating_count"}

TwoAliasFields == {f \in Fields : Len(Aliases[f]) = 2}

MaxOrdinal == 100

RowOrdinals == {0, 1, 10, 41, MaxOrdinal}

CellValues ==
    {None, NaN, PyStr(<<>>), PyStr(<<"a", "b", "c">>), PyStr(<<"7">>),
     PyStr(<<"2", ".", "5">>), PyInt(0), PyInt(7), PyFloat(0), PyFloat(25),
     PyFloat(-3)}

EmptyRow == [c \in Columns |-> None]

SampleRow ==
    [c \in Columns |->
        IF c \in {"latitude", "longitude", "rating"} THEN PyFloat(515)
        ELSE IF c = "rating_count" THEN PyInt(12)
        ELSE IF c \in {"poi_id", "ID"} THEN PyInt(9)
        ELSE PyStr(<<"v">>)]

Range(seq) == {seq[i] : i \in 1..Len(seq)}

Override(base, ov) == [c \in Columns |-> IF c \in DOMAIN ov THEN ov[c] ELSE base[c]]

(* a base row with the source columns of one field set to any cell values *)
RowInputs ==
    UNION {{Override(base, ov) : ov \in [Range(Aliases[f]) -> CellValues]} :
               <<f, base>> \in Fields \X {EmptyRow, SampleRow}}

----------------------------------------------------------------------------
(* Directory entries and their order *)

FileA == <<"a", ".", "x", "l", "s", "x">>

FileB == <<"b", ".", "x", "l", "s", "x">>

(* the lock file Excel keeps next to an open workbook *)
LockFile == <<"~", "$", "a", ".", "x", "l", "s", "x">>

NotesFile == <<"n", "o", "t", "e", "s", ".", "t", "x", "t">>

XlsxNames == {FileA, FileB}

OtherNames == {LockFile, NotesFile}

(* the characters of the names above, in code point order *)
Alphabet == <<"$", ".", "a", "b", "e", "l", "n", "o", "s", "t", "x", "~">>

Ord(c) == CHOOSE k \in 1..Len(Alphabet) : Alphabet[k] = c

RECURSIVE LexLess(_, _)
(* a < b for two str *)
LexLess(a, b) ==
    IF Len(b) = 0 THEN FALSE
    ELSE IF Len(a) = 0 THEN TRUE
    ELSE IF a[1] # b[1] THEN Ord(a[1]) < Ord(b[1])
    ELSE LexLess(Tail(a), Tail(b))

RECURSIVE Insert(_, _)
Insert(x, seq) ==
    IF Len(seq) = 0 THEN <<x>>
    ELSE IF LexLess(x, seq[1]) THEN <<x>> \o seq
    ELSE <<seq[1]>> \o Insert(x, Tail(seq))

(* variant of Sorted that keeps the listing order *)
Unsorted(seq) == seq

RECURSIVE Sorted(_)
(* sorted(excel_files): every path is REPO_PATH joined with the name, so   *)
(* the paths sort as the names do                                          *)
Sorted(seq) == IF Len(seq) = 0 THEN <<>> ELSE Insert(seq[1], Sorted(Tail(seq)))

(* f.endswith(".xlsx") *)
EndsWithXlsx(f) ==
    Len(f) >= 5 /\ SubSeq(f, Len(f) - 4, Len(f)) = <<".", "x", "l", "s", "x">>

(* f.startswith("~") *)
StartsWithTilde(f) == Len(f) >= 1 /\ f[1] = "~"

IsExcelName(f) == EndsWithXlsx(f) /\ ~StartsWithTilde(f)

(* the orders os.listdir may return the entries of a directory in *)
Listings(entries) ==
    {l \in [1..Cardinality(entries) -> entries] :
        \A i, j \in 1..Cardinality(entries) : l[i] = l[j] => i = j}

----------------------------------------------------------------------------
(* Workbooks: [ok, sheets], a sheet is [ok, rows]; ok = FALSE stands for a  *)
(* workbook pd.ExcelFile cannot open, resp. a sheet pd.read_excel rejects  *)

MaxRows == 3

MaxSheets == 2

BigRows == 1000

(* row i of sheet s of file f; a bad row has text in its latitude cell *)
MainRow(f, s, i, bad) ==
    [c \in {"name", "latitude", "Police_Force", "Locality", "category_level1",
            "rating_count"} |->
        CASE c = "name" -> PyStr(<<f[1], "s">> \o NatStr(s) \o <<"r">> \o NatStr(i - 1))
          [] c = "latitude" -> IF bad THEN PyStr(<<"a", "b", "c">>) ELSE PyFloat(515)
          [] c = "Police_Force" -> PyStr(IF i % 2 = 1 THEN <<"X">> ELSE <<"Y">>)
          [] c = "Locality" -> PyStr(<<"L">> \o NatStr(s))
          [] c = "category_level1" -> IF i = 1 THEN NaN ELSE PyStr(<<"S", "h", "o", "p">>)
          [] c = "rating_count" -> PyFloat(10 * i + 5)]

SheetShapes ==
    {[ok |-> FALSE, n |-> 0, bad |-> 0]}
        \cup {[ok |-> TRUE, n |-> n, bad |-> b] : <<n, b>> \in {p \in (0..MaxRows) \X (0..MaxRows) : p[2] <= p[1]}}

WorkbookShapes ==
    {[ok |-> FALSE, sheets |-> <<>>]}
        \cup UNION {{[ok |-> TRUE, sheets |-> ss] : ss \in [1..k -> SheetShapes]} : k \in 0..MaxSheets}

BuildSheet(f, s, shape) ==
    [ok |-> shape.ok, rows |-> [i \in 1..shape.n |-> MainRow(f, s, i, i = shape.bad)]]

BuildWorkbook(f, shape) ==
    [ok |-> shape.ok,
     sheets |-> [s \in 1..Len(shape.sheets) |-> BuildSheet(f, s, shape.sheets[s])]]

RECURSIVE SumOver(_, _)
SumOver(fn, dom) ==
    IF dom = {} THEN 0
    ELSE LET x == CHOOSE y \in dom : TRUE IN fn[x] + SumOver(fn, dom \ {x})

(* the small directories: at most MaxSheets sheets over all workbooks *)
SmallDisks ==
    UNION {{[f \in F |-> BuildWorkbook(f, w[f])] :
               w \in {v \in [F -> WorkbookShapes] :
                         SumOver([f \in F |-> Len(v[f].sheets)], F) <= MaxSheets}} :
           F \in SUBSET XlsxNames}

(* one workbook with one sheet of BigRows rows *)
BigDisks ==
    {[f \in {FileA} |->
        BuildWorkbook(f, [ok |-> TRUE,
                          sheets |-> <<[ok |-> TRUE, n |-> BigRows, bad |-> 0]>>])]}

Disks == SmallDisks \cup BigDisks

----------------------------------------------------------------------------
(* parse_excel_file *)

(* the first row of the sheet on which the loop body raises, or Len + 1 *)
FirstRaise(rows) ==
    IF \E i \in 1..Len(rows) : RowRaises(rows[i])
    THEN CHOOSE i \in 1..Len(rows) :
            RowRaises(rows[i]) /\ \A j \in 1..(i - 1) : ~RowRaises(rows[j])
    ELSE Len(rows) + 1

(* variant of ParseSheet that numbers the rows from 1 *)
ParseSheetOneBased(sheet) ==
    IF ~sheet.ok THEN <<>>
    ELSE [i \in 1..(FirstRaise(sheet.rows) - 1) |-> Retailer(sheet.rows[i], i)]

(* one iteration of the sheet loop: the records appended before the inner  *)
(* except clause (or the end of the sheet) ends it                         *)
ParseSheet(sheet) ==
    IF ~sheet.ok THEN <<>>
    ELSE [i \in 1..(FirstRaise(sheet.rows) - 1) |-> Retailer(sheet.rows[i], i - 1)]

RECURSIVE ParseSheets(_)
ParseSheets(sheets) ==
    IF Len(sheets) = 0 THEN <<>>
    ELSE ParseSheet(sheets[1]) \o ParseSheets(Tail(sheets))

(* parse_excel_file(filepath): [] when the workbook cannot be opened *)
ParseFile(wb) == IF ~wb.ok THEN <<>> ELSE ParseSheets(wb.sheets)

----------------------------------------------------------------------------
(* The artifact *)

Pad3(k) == <<Digits[(k \div 100) + 1], Digits[((k \div 10) % 10) + 1], Digits[(k % 10) + 1]>>

RECURSIVE CommaStr(_)
(* f"{k:,}": decimal digits in groups of three separated by commas *)
CommaStr(k) == IF k < 1000 THEN NatStr(k)
               ELSE CommaStr(k \div 1000) \o <<",">> \o Pad3(k % 1000)

(* the JSON token json.dumps writes for a value *)
JsonOf(v) ==
    CASE v.t = "none"  -> <<"n", "u", "l", "l">>
      [] v.t = "nan"   -> <<"N", "a", "N">>
      [] v.t = "str"   -> <<"\"">> \o v.s \o <<"\"">>
      [] v.t = "int"   -> IntStr(v.n)
      [] v.t = "float" -> FloatStr(v.n)

JsonDumps(records) ==
    [i \in 1..Len(records) |-> [f \in DOMAIN records[i] |-> JsonOf(records[i][f])]]

(* len(set(r.get(field, '') for r in all_retailers if r.get(field))) *)
UniqueCount(records, field) ==
    Cardinality({records[i][field] :
                    i \in {j \in 1..Len(records) : Truthy(records[j][field])}})

(* js_content, by its variable parts *)
JsContent(records, sources) ==
    [generated_from       |-> sources,
     total_records        |-> CommaStr(Len(records)),
     RETAILERS_DATA       |-> JsonDumps(records),
     RETAILER_COUNT       |-> CommaStr(Len(records)),
     UNIQUE_POLICE_FORCES |-> NatStr(UniqueCount(records, "police_force")),
     UNIQUE_LOCALITIES    |-> NatStr(UniqueCount(records, "locality")),
     UNIQUE_CATEGORIES    |-> NatStr(UniqueCount(records, "category"))]

----------------------------------------------------------------------------
VARIABLES row, idx, retailer, rowpc,
          dir, disk, run, pc, excel_files, queue, source_files, all_retailers,
          artifact, written, published, ending, advisory, first_artifact

rowvars == <<row, idx, retailer, rowpc>>

envvars == <<dir, disk>>

mainvars == <<run, pc, excel_files, queue, source_files, all_retailers,
              artifact, written, published, ending, advisory, first_artifact>>

vars == <<row, idx, retailer, rowpc, dir, disk, run, pc, excel_files, queue,
          source_files, all_retailers, artifact, written, published, ending,
          advisory, first_artifact>>

(* the state of main() before its first statement *)
Fresh ==
    /\ pc = "start"
    /\ excel_files = <<>>
    /\ queue = <<>>
    /\ source_files = <<>>
    /\ all_retailers = <<>>
    /\ written = FALSE
    /\ published = "none"
    /\ ending = "running"
    /\ advisory = FALSE

Init ==
    /\ row = <<>> /\ idx = 0 /\ retailer = <<>> /\ rowpc = "idle"
    /\ disk \in Disks
    /\ dir = DOMAIN disk \cup OtherNames
    /\ run = 1
    /\ artifact = <<>>
    /\ first_artifact = <<>>
    /\ Fresh

(* for f in os.listdir(REPO_PATH): keep the Excel names; return when there *)
(* are none, else set up the loop over sorted(excel_files)                 *)
FindExcelFiles ==
    /\ pc = "start"
    /\ \E listing \in Listings(dir) :
          LET found == SelectSeq(listing, IsExcelName)
          IN  /\ excel_files' = found
              /\ IF found = <<>>
                 THEN /\ pc' = "done"
                      /\ ending' = "no_input"
                      /\ queue' = <<>>
                 ELSE /\ pc' = "loop"
                      /\ ending' = ending
                      /\ queue' = Sorted(found)
    /\ UNCHANGED <<source_files, all_retailers, artifact, written, published,
                   advisory, run, first_artifact>>
    /\ UNCHANGED envvars /\ UNCHANGED rowvars

(* variant of ProcessFile in which a workbook that cannot be opened ends   *)
(* the run with the exception                                              *)
ProcessFileNoTry ==
    /\ pc = "loop"
    /\ queue # <<>>
    /\ source_files' = Append(source_files, Head(queue))
    /\ all_retailers' = all_retailers \o ParseFile(disk[Head(queue)])
    /\ queue' = Tail(queue)
    /\ IF ~disk[Head(queue)].ok
       THEN pc' = "done" /\ ending' = "uncaught"
       ELSE pc' = (IF Tail(queue) = <<>> THEN "emit" ELSE "loop") /\ ending' = ending
    /\ UNCHANGED <<excel_files, artifact, written, published, advisory,
                   run, first_artifact>>
    /\ UNCHANGED envvars /\ UNCHANGED rowvars

(* one iteration of the loop over the files *)
ProcessFile ==
    /\ pc = "loop"
    /\ queue # <<>>
    /\ source_files' = Append(source_files, Head(queue))
    /\ all_retailers' = all_retailers \o ParseFile(disk[Head(queue)])
    /\ queue' = Tail(queue)
    /\ pc' = IF Tail(queue) = <<>> THEN "emit" ELSE "loop"
    /\ UNCHANGED <<excel_files, artifact, written, published, ending, advisory,
                   run, first_artifact>>
    /\ UNCHANGED envvars /\ UNCHANGED rowvars

(* build js_content and write it to OUTPUT_FILE *)
WriteArtifact ==
    /\ pc = "emit"
    /\ artifact' = <<JsContent(all_retailers, source_files)>>
    /\ written' = TRUE
    /\ pc' = "git_add"
    /\ UNCHANGED <<excel_files, queue, source_files, all_retailers, published,
                   ending, advisory, run, first_artifact>>
    /\ UNCHANGED envvars /\ UNCHANGED rowvars

(* os.chdir(REPO_PATH); subprocess.run(["git", "add", ...], check=True):   *)
(* git exits 0, exits non-zero (CalledProcessError, caught), or cannot be  *)
(* started (FileNotFoundError, an OSError the except clause does not name) *)
GitAdd ==
    /\ pc = "git_add"
    /\ \E outcome \in {"ok", "CalledProcessError", "FileNotFoundError"} :
          CASE outcome = "ok" ->
                  /\ published' = "staged"
                  /\ pc' = "git_commit"
                  /\ UNCHANGED <<ending, advisory>>
            [] outcome = "CalledProcessError" ->
                  /\ advisory' = TRUE
                  /\ ending' = "complete"
                  /\ pc' = "done"
                  /\ UNCHANGED published
            [] outcome = "FileNotFoundError" ->
                  /\ ending' = "uncaught"
                  /\ pc' = "done"
                  /\ UNCHANGED <<published, advisory>>
    /\ UNCHANGED <<excel_files, queue, source_files, all_retailers, artifact,
                   written, run, first_artifact>>
    /\ UNCHANGED envvars /\ UNCHANGED rowvars

(* subprocess.run(["git", "commit", ...], check=True) *)
GitCommit ==
    /\ pc = "git_commit"
    /\ \E outcome \in {"ok", "CalledProcessError"} :
          IF outcome = "ok"
          THEN /\ published' = "committed"
               /\ pc' = "git_push"
               /\ UNCHANGED <<ending, advisory>>
          ELSE /\ advisory' = TRUE
               /\ ending' = "complete"
               /\ pc' = "done"
               /\ UNCHANGED published
    /\ UNCHANGED <<excel_files, queue, source_files, all_retailers, artifact,
                   written, run, first_artifact>>
    /\ UNCHANGED envvars /\ UNCHANGED rowvars

(* subprocess.run(["git", "push", ...], check=True), then the closing      *)
(* prints of main()                                                        *)
GitPush ==
    /\ pc = "git_push"
    /\ \E outcome \in {"ok", "CalledProcessError"} :
          IF outcome = "ok"
          THEN /\ published' = "pushed"
               /\ UNCHANGED advisory
          ELSE /\ advisory' = TRUE
               /\ UNCHANGED published
    /\ ending' = "complete"
    /\ pc' = "done"
    /\ UNCHANGED <<excel_files, queue, source_files, all_retailers, artifact,
                   written, run, first_artifact>>
    /\ UNCHANGED envvars /\ UNCHANGED rowvars

(* the script is started again on the same directory; OUTPUT_FILE is as    *)
(* the first run left it                                                   *)
RunAgain ==
    /\ pc = "done"
    /\ run = 1
    /\ run' = 2
    /\ first_artifact' = artifact
    /\ pc' = "start"
    /\ excel_files' = <<>>
    /\ queue' = <<>>
    /\ source_files' = <<>>
    /\ all_retailers' = <<>>
    /\ written' = FALSE
    /\ published' = "none"
    /\ ending' = "running"
    /\ advisory' = FALSE
    /\ UNCHANGED artifact
    /\ UNCHANGED envvars /\ UNCHANGED rowvars

Next ==
    \/ FindExcelFiles
    \/ ProcessFile
    \/ WriteArtifact
    \/ GitAdd
    \/ GitCommit
    \/ GitPush
    \/ RunAgain

Spec == Init /\ [][Next]_vars

----------------------------------------------------------------------------
(* The row loop body on its own *)

InitRow ==
    /\ row \in RowInputs
    /\ idx \in RowOrdinals
    /\ retailer = <<>>
    /\ rowpc = "start"
    /\ dir = {} /\ disk = <<>> /\ run = 0
    /\ pc = "idle" /\ excel_files = <<>> /\ queue = <<>> /\ source_files = <<>>
    /\ all_retailers = <<>> /\ artifact = <<>> /\ written = FALSE
    /\ published = "none" /\ ending = "running" /\ advisory = FALSE
    /\ first_artifact = <<>>

(* one pass of the row loop body that completes: the dict is built *)
BuildRetailer ==
    /\ rowpc = "start"
    /\ ~RowRaises(row)
    /\ retailer' = <<Retailer(row, idx)>>
    /\ rowpc' = "built"
    /\ UNCHANGED <<row, idx>>
    /\ UNCHANGED envvars /\ UNCHANGED mainvars

(* one pass of the row loop body in which float() or int() raises *)
RaiseInRow ==
    /\ rowpc = "start"
    /\ RowRaises(row)
    /\ rowpc' = "raised"
    /\ UNCHANGED <<row, idx, retailer>>
    /\ UNCHANGED envvars /\ UNCHANGED mainvars

NextRow == BuildRetailer \/ RaiseInRow

SpecRow == InitRow /\ [][NextRow]_vars

----------------------------------------------------------------------------
(* Properties of the row loop body (SpecRow) *)

(* the fields of the record table of the data model *)
SchemaFields ==
    {"id", "name", "locality", "postcode", "address", "latitude", "longitude",
     "category", "subcategory", "category_detail", "business_status",
     "police_force", "tactical_area", "local_authority", "rating",
     "rating_count", "phone", "website"}

(* C1, as stated: every record built from a row has exactly 17 fields. *)
C1_SeventeenFields ==
    rowpc = "built" => Cardinality(DOMAIN retailer[1]) = 17

(* C1, amended: every record built from a row, whatever the row holds, has *)
(* exactly the 18 fields of the record table, none missing and none extra. *)
C1_ExactlySchemaFields ==
    rowpc = "built" =>
        /\ DOMAIN retailer[1] = SchemaFields
        /\ Cardinality(DOMAIN retailer[1]) = 18

(* a record was built from a row that has a column outside the schema and  *)
(* lacks the id columns                                                    *)
C1_Witness ==
    /\ rowpc = "built"
    /\ row["Notes"] # None
    /\ row["poi_id"] = None
    /\ row["ID"] = None
    /\ retailer[1].id = PyStr(<<"4", "1">>)

(* C3, as stated: when a row contains both aliases of a two-alias string   *)
(* field, the field is the string form of the first alias's value.         *)
C3_FirstAliasWins ==
    rowpc = "built" =>
        \A f \in TwoAliasFields :
            (row[Aliases[f][1]] # None /\ row[Aliases[f][2]] # None)
                => retailer[1][f] = PyStr(StrOf(row[Aliases[f][1]]))

(* C3, amended: when a row contains both aliases of a two-alias string     *)
(* field and the first alias's value is truthy (not the empty string and   *)
(* not a numeric zero), the field is the string form of that value.        *)
C3_TruthyFirstAliasWins ==
    rowpc = "built" =>
        \A f \in TwoAliasFields :
            (row[Aliases[f][1]] # None /\ row[Aliases[f][2]] # None
                /\ Truthy(row[Aliases[f][1]]))
                => retailer[1][f] = PyStr(StrOf(row[Aliases[f][1]]))

(* a record was built from a row whose two category columns hold different *)
(* non-empty strings, and it carries the first one                         *)
C3_Witness ==
    /\ rowpc = "built"
    /\ row["category_level1"] = PyStr(<<"a", "b", "c">>)
    /\ row["Category"] = PyStr(<<"7">>)
    /\ retailer[1].category = PyStr(<<"a", "b", "c">>)

(* the cell states that yield no non-empty value: the column is missing,   *)
(* the cell has no value, the value is the empty string                    *)
NoValue(v) == v = None \/ v = NaN \/ v = PyStr(<<>>)

DefaultOf(f, ordinal) ==
    CASE f = "id"   -> PyStr(NatStr(ordinal))
      [] f = "name" -> PyStr(<<"U", "n", "k", "n", "o", "w", "n">>)
      [] OTHER      -> PyStr(<<>>)

(* C4: a string field none of whose aliases yields a non-empty value takes *)
(* its default: the row ordinal in decimal for id, "Unknown" for name, the *)
(* empty string for the others.                                            *)
C4_DefaultFallback ==
    rowpc = "built" =>
        \A f \in Fields \ NumericFields :
            (\A k \in 1..Len(Aliases[f]) : NoValue(row[Aliases[f][k]]))
                => retailer[1][f] = DefaultOf(f, idx)

----------------------------------------------------------------------------
(* Properties of a run of main() (Spec) *)

(* the loop over the files has ended *)
LoopDone == pc \in {"emit", "git_add", "git_commit", "git_push", "done"} /\ excel_files # <<>>

SheetCount(sheet) == IF sheet.ok THEN Len(sheet.rows) ELSE 0

FileCount(wb) ==
    IF wb.ok THEN SumOver([s \in 1..Len(wb.sheets) |-> SheetCount(wb.sheets[s])], 1..Len(wb.sheets))
    ELSE 0

(* the place of row i of sheet s of file f among all the rows of readable  *)
(* sheets, files by name and sheets by position                            *)
Position(f, s, i) ==
    LET earlier == {g \in DOMAIN disk : LexLess(g, f)}
    IN  SumOver([g \in earlier |-> FileCount(disk[g])], earlier)
            + SumOver([t \in 1..(s - 1) |-> SheetCount(disk[f].sheets[t])], 1..(s - 1))
            + i

TotalRows == SumOver([g \in DOMAIN disk |-> FileCount(disk[g])], DOMAIN disk)

(* the rows of the readable sheets of the readable workbooks *)
ReadableRows ==
    UNION {UNION {{<<f, s, i>> : i \in 1..SheetCount(disk[f].sheets[s])} :
                     s \in 1..Len(disk[f].sheets)} :
              f \in {g \in DOMAIN disk : disk[g].ok}}

AllReadable ==
    \A f \in DOMAIN disk :
        disk[f].ok /\ \A s \in 1..Len(disk[f].sheets) : disk[f].sheets[s].ok

NoRowRaises ==
    \A f \in DOMAIN disk : \A s \in 1..Len(disk[f].sheets) :
        \A i \in 1..Len(disk[f].sheets[s].rows) : ~RowRaises(disk[f].sheets[s].rows[i])

(* the row with every numeric cell that float()/int() rejects emptied *)
Nulled(r) ==
    [c \in DOMAIN r |->
        IF \/ c \in {"latitude", "longitude", "rating"} /\ NotNa(r[c]) /\ FloatRaises(r[c])
           \/ c = "rating_count" /\ NotNa(r[c]) /\ IntRaises(r[c])
        THEN None ELSE r[c]]

(* C2: a numeric cell that fails coercion costs no row: with every         *)
(* workbook and sheet readable, each row of each sheet is emitted at its   *)
(* place, the failing field null and the other fields as usual.            *)
C2_CoercionFailureKeepsRows ==
    (LoopDone /\ AllReadable) =>
        /\ Len(all_retailers) = TotalRows
        /\ \A p \in ReadableRows :
              /\ Position(p[1], p[2], p[3]) <= Len(all_retailers)
              /\ all_retailers[Position(p[1], p[2], p[3])]
                    = Retailer(Nulled(disk[p[1]].sheets[p[2]].rows[p[3]]), p[3] - 1)

(* C5: when no source fails, the records are the rows of all sheets, files *)
(* in sorted name order, sheets in workbook order, rows in row order, one  *)
(* record per row built with the row's 0-based ordinal; the artifact holds *)
(* them in that order.                                                     *)
C5_OrderAndCardinality ==
    (LoopDone /\ AllReadable /\ NoRowRaises) =>
        /\ Len(all_retailers) = TotalRows
        /\ \A p \in ReadableRows :
              all_retailers[Position(p[1], p[2], p[3])]
                  = Retailer(disk[p[1]].sheets[p[2]].rows[p[3]], p[3] - 1)
        /\ written => artifact[1].RETAILERS_DATA = JsonDumps(all_retailers)

NameOf(f, s, i) == PyStr(<<f[1], "s">> \o NatStr(s) \o <<"r">> \o NatStr(i - 1))

(* A (3 rows) and B (2 rows) were merged into A0, A1, A2, B0, B1 although  *)
(* the directory listed B first                                            *)
C5_Witness ==
    /\ pc = "done" /\ written /\ AllReadable /\ NoRowRaises
    /\ excel_files = <<FileB, FileA>>
    /\ Len(disk[FileA].sheets) = 1 /\ Len(disk[FileA].sheets[1].rows) = 3
    /\ Len(disk[FileB].sheets) = 1 /\ Len(disk[FileB].sheets[1].rows) = 2
    /\ [i \in 1..Len(all_retailers) |-> all_retailers[i].name]
          = <<NameOf(FileA, 1, 1), NameOf(FileA, 1, 2), NameOf(FileA, 1, 3),
              NameOf(FileB, 1, 1), NameOf(FileB, 1, 2)>>
    /\ [i \in 1..Len(all_retailers) |-> all_retailers[i].id.s]
          = <<<<"0">>, <<"1">>, <<"2">>, <<"0">>, <<"1">>>>

(* the workbooks with each unreadable one replaced by one without sheets *)
AsIfEmpty == [f \in DOMAIN disk |-> IF disk[f].ok THEN disk[f] ELSE [ok |-> TRUE, sheets |-> <<>>]]

(* the Excel names of the directory in increasing order *)
NamesInOrder ==
    CHOOSE q \in Listings(DOMAIN disk) : \A i \in 1..(Len(q) - 1) : LexLess(q[i], q[i + 1])

RECURSIVE RecordsOf(_, _)
RecordsOf(d, names) ==
    IF Len(names) = 0 THEN <<>>
    ELSE ParseFile(d[names[1]]) \o RecordsOf(d, Tail(names))

SomeUnreadable == \E f \in DOMAIN disk : ~disk[f].ok

PublishAttempted ==
    \/ pc \in {"git_commit", "git_push"}
    \/ published # "none" \/ advisory \/ ending = "uncaught"

(* C7: a run whose sources yield no record writes no artifact and does not *)
(* reach the publish step; when it ends, it ends as the empty-input case.  *)
C7_EmptyInputNoArtifact ==
    all_retailers = <<>> =>
        /\ ~written
        /\ pc \notin {"git_add", "git_commit", "git_push"} /\ ~PublishAttempted
        /\ pc = "done" => ending = "no_input"

(* C8: a second run on the same directory, whatever order the listing      *)
(* comes in, ends with the same artifact as the first, and writes one      *)
(* exactly when the first did.                                             *)
C8_Deterministic ==
    (run = 2 /\ pc = "done") =>
        /\ artifact = first_artifact
        /\ written <=> first_artifact # <<>>

(* a second run was handed the two workbooks in reverse name order and     *)
(* wrote an artifact with records                                          *)
C8_Witness ==
    /\ run = 2 /\ pc = "done" /\ written
    /\ excel_files = <<FileB, FileA>>
    /\ Len(ParseFile(disk[FileA])) > 0
    /\ Len(ParseFile(disk[FileB])) > 0
    /\ artifact = first_artifact

DistinctNonEmpty(field) ==
    {v \in {all_retailers[i][field].s : i \in 1..Len(all_retailers)} : v # <<>>}

(* C9: the emitted total count is the number of records, and each of the   *)
(* three distinct-value counts is the number of distinct non-empty values  *)
(* of its field.                                                           *)
C9_MetadataCorrect ==
    written =>
        /\ artifact[1].RETAILER_COUNT = NatStr(Len(all_retailers))
        /\ artifact[1].UNIQUE_POLICE_FORCES = NatStr(Cardinality(DistinctNonEmpty("police_force")))
        /\ artifact[1].UNIQUE_LOCALITIES = NatStr(Cardinality(DistinctNonEmpty("locality")))
        /\ artifact[1].UNIQUE_CATEGORIES = NatStr(Cardinality(DistinctNonEmpty("category")))

(* C10: the publish step starts only after the artifact is written, and    *)
(* however it fails the artifact stays as written and the run ends as a    *)
(* completion, never with an uncaught exception.                           *)
C10_PublishFailureNonFatal ==
    /\ (pc \in {"git_add", "git_commit", "git_push"} \/ PublishAttempted) => written
    /\ written => artifact = <<JsContent(all_retailers, source_files)>>
    /\ ending # "uncaught"
    /\ (pc = "done" /\ written) => ending = "complete"

====
